---- MODULE Spec2Model ----
(***************************************************************************)
(* Model of the ClockifyKeypad timer control path (src/main.py): the HID   *)
(* raw-data handler on_data_handler and the two functions it calls,        *)
(* start_timer and stop_timer, together with the part of the Clockify      *)
(* service those functions talk to (the in-progress time entry).           *)
(*                                                                         *)
(* The free names BASE_URL, WORKSPACE_ID, HEADERS, DESCRIPTION and         *)
(* PROJECT_ID that start_timer/stop_timer read are taken as configuration  *)
(* values of the process; PROJECT_ID may be empty (falsy) or set.          *)
(*                                                                         *)
(* The handler is modelled as registered by main() (main.py:203); the      *)
(* module-level statements at main.py:95-99 run before these functions     *)
(* are defined and are not part of this path.                              *)
(*                                                                         *)
(* The service keeps at most one entry in progress per user: a POST        *)
(* answered 201 makes the created entry the one in progress, a PUT         *)
(* answered 200 ends it.  A request that raises (transport failure) is     *)
(* given the status Exc.                                                   *)
(*                                                                         *)
(* pywinusb delivers raw reports one at a time on its reader thread, so    *)
(* one handler call runs to completion before the next one starts: every   *)
(* handler call is one action.                                             *)
(***************************************************************************)
EXTENDS Integers, Sequences, FiniteSets, TLC

VARIABLES
    start_time,   \* the module global _start_time (main.py:102)
    PROJECT_ID,   \* configuration value read at main.py:114
    now,          \* the wall clock read by datetime.now(timezone.utc)
    remote,       \* in-progress time entries held by the service (<<>> or <<e>>)
    nextId,       \* id the service gives to the next created entry
    phase,        \* history: "Idle" / "Running" as the events define it
    last,         \* history: what the most recent handler call did
    prev,         \* history: what the handler call before that did
    \* -- the catalog store of src/gui.py (a separate program) --
    pages,        \* the project pages the service holds, page 1 first
    f_pc,         \* where the GetProjectsAndTasks thread is
    page,         \* get_projects: the local page
    projects_list,\* get_projects: the local projects_list
    page_items,   \* get_projects: projects_this_page
    page_acc,     \* get_projects: the list the comprehension is building
    f_result,     \* the list get_projects returned (myprojects), once it has
    f_error,      \* the exception that ended the thread, "" if none
    reqs,         \* history: the requests the fetch has issued, in order
    m_projects,   \* Model._projects
    m_observers,  \* Model._observers
    mutex,        \* owner of Model._mutex
    n_idx,        \* notify_observers: index of the list iterator
    snapshot,     \* history: Model._observers when the notification round began
    called,       \* history: the callbacks called in the round, in order
    cb_seen,      \* history: what the reads inside callbacks returned
    installs,     \* history: number of assignments to Model._projects by cb
    m_pc,         \* where the main (GUI) thread is
    m_arg,        \* the project passed to get_tasks_for_project
    m_last,       \* history: what the main thread's last Model call returned
    \* -- the objects behind Model._projects and the copies handed out --
    c_heap,       \* the list and project objects, by reference
    c_store,      \* the reference held in Model._projects
    c_installed,  \* cb has assigned Model._projects
    c_value,      \* history: the catalog value cb installed (<<>> before)
    c_held,       \* the references get_projects / get_tasks_for_project returned
    c_expect,     \* history: what each returned copy should read as
    c_muts,       \* history: number of mutations callers have made
    \* -- Presenter and MainView of src/gui.py --
    p_pc,         \* where the main thread is in App.OnInit / Presenter.__init__
    p_local,      \* on_model_updated on the main thread: the local projects
    k_local,      \* on_model_updated called by notify_observers: the local projects
    project_combo,\* the items of MainView.project_combo
    removed,      \* history: the observers removed since the round began
    \* -- src/main.py run as a script --
    s_pc,         \* the statement the interpreter is at
    s_exit,       \* the exit status of the process, StillRunning while it runs
    s_handler,    \* a raw data handler is set on the device
    s_dropped,    \* history: reports the keypad sent that no handler received
    s_printed     \* history: what pprint.pprint has written

vars == <<start_time, PROJECT_ID, now, remote, nextId, phase, last, prev>>

svars == <<pages, f_pc, page, projects_list, page_items, page_acc, f_result,
           f_error, reqs, m_projects, m_observers, mutex, n_idx, snapshot,
           called, cb_seen, installs, m_pc, m_arg, m_last>>

cvars == <<c_heap, c_store, c_installed, c_value, c_held, c_expect, c_muts>>

pvars == <<p_pc, p_local, k_local, project_combo, removed>>

xvars == <<s_pc, s_exit, s_handler, s_dropped, s_printed>>

allvars == <<vars, svars, cvars, pvars, xvars>>

----------------------------------------------------------------------------
(* Bounds *)

MaxTime == 3       \* the clock takes the values 2..MaxTime
MaxEntries == 2    \* the service hands out entry ids up to MaxEntries

----------------------------------------------------------------------------
(* Values *)

None == 0          \* Python None, for a time or an entry id
Exc == 0           \* "status" of a request that raised instead of answering

HARD_PROJECT == "67ecf1beedf9a1136e65242c"
HARD_TASK == "67ecf1beedf9a1136e65243a"
DESCRIPTION == "desc"

ProjectIdConfigs == {"", "pX"}

PostStatuses == {201, 500, Exc}
GetStatuses == {200, 500, Exc}
PutStatuses == {200, 400, Exc}

\* data[3] and data[8] of the raw reports the keypad sends
Reports == [b3 : {31, 33}, b8 : {16, 17, 0}]

\* one HTTP request as issued by requests.get/post/put, with its answer
\* (answer is the list of entries a successful in-progress lookup returns)
Req(op, entry, start, end, projectId, taskId, description, status, answer) ==
    [op |-> op, entry |-> entry, start |-> start, end |-> end,
     projectId |-> projectId, taskId |-> taskId,
     description |-> description, status |-> status, answer |-> answer]

GetUser(status) == Req("GET user", None, None, None, "", "", "", status, <<>>)

GetRunning(status, entries) ==
    Req("GET in-progress", None, None, None, "", "", "", status,
        IF status = 200 THEN entries ELSE <<>>)

\* what a call of start_timer or stop_timer leaves behind
Result(st, calls, msg, outcome) ==
    [start_time |-> st, calls |-> calls, msg |-> msg, outcome |-> outcome]

\* the entry a previous run of the program left in progress on the service
OrphanEntry == [id |-> 1, start |-> 1, projectId |-> HARD_PROJECT, taskId |-> HARD_TASK]

\* a handler call: the report's kind, the number printed, the phase and
\* _start_time when the report arrived, and what the called function did
Call(kind, shown, at, st0, r) ==
    [kind |-> kind, shown |-> shown, at |-> at, st0 |-> st0,
     calls |-> r.calls, msg |-> r.msg, outcome |-> r.outcome]

NoCall == Call("none", 0, "Idle", None, Result(None, <<>>, "", "None"))

----------------------------------------------------------------------------
(* start_timer, main.py:104-128.  st is _start_time on entry, t the clock,  *)
(* pid the configured PROJECT_ID, status the answer to the POST.            *)

start_timer(st, t, pid, status) ==
    LET payload == Req("POST", None, t, None,
                       IF pid /= "" THEN pid ELSE HARD_PROJECT,
                       HARD_TASK, DESCRIPTION, status, <<>>)
    IN  Result(t, <<payload>>,
               IF status = Exc THEN ""
               ELSE IF status = 201 THEN "Timer started."
               ELSE "Start failed",
               IF status = Exc THEN "raised" ELSE "None")

----------------------------------------------------------------------------
(* stop_timer, main.py:130-168.  st is _start_time on entry, t the clock,   *)
(* entries the list the in-progress lookup answers with, us/rs/ss the       *)
(* answers to the user lookup, the in-progress lookup and the PUT.          *)

\* stop_timer sending the PUT without looking at the list the lookup returned
stop_timer_put_unchecked(st, t, entries, us, rs, ss) ==
    LET user_res == GetUser(us)
        running_res == GetRunning(rs, entries)
        stop_payload == Req("PUT",
                            IF running_res.answer = <<>> THEN None
                            ELSE running_res.answer[1].id,
                            st, t, HARD_PROJECT, HARD_TASK, "", ss, <<>>)
    IN  IF us = Exc THEN Result(st, <<user_res>>, "", "raised")
        ELSE IF us /= 200 THEN Result(st, <<user_res>>, "Failed to get user info.", "None")
        ELSE IF rs = Exc THEN Result(st, <<user_res, running_res>>, "", "raised")
        ELSE IF rs /= 200 THEN
            Result(st, <<user_res, running_res>>, "Failed to get running timer.", "None")
        ELSE Result(st, <<user_res, running_res, stop_payload>>,
                    IF ss = Exc THEN ""
                    ELSE IF ss = 200 THEN "Timer stopped." ELSE "Stop failed",
                    IF ss = Exc THEN "raised" ELSE "None")

\* stop_timer returning at once when no start time is recorded locally
stop_timer_local_guard(st, t, entries, us, rs, ss) ==
    LET user_res == GetUser(us)
        running_res == GetRunning(rs, entries)
    IN  IF st = None THEN Result(st, <<>>, "No timer is running.", "None")
        ELSE IF us = Exc THEN Result(st, <<user_res>>, "", "raised")
        ELSE IF us /= 200 THEN Result(st, <<user_res>>, "Failed to get user info.", "None")
        ELSE IF rs = Exc THEN Result(st, <<user_res, running_res>>, "", "raised")
        ELSE IF rs /= 200 THEN
            Result(st, <<user_res, running_res>>, "Failed to get running timer.", "None")
        ELSE IF running_res.answer = <<>> THEN
            Result(st, <<user_res, running_res>>, "No timer is running.", "None")
        ELSE
            LET stop_payload == Req("PUT", running_res.answer[1].id, st, t,
                                    HARD_PROJECT, HARD_TASK, "", ss, <<>>)
            IN  Result(st, <<user_res, running_res, stop_payload>>,
                       IF ss = Exc THEN ""
                       ELSE IF ss = 200 THEN "Timer stopped." ELSE "Stop failed",
                       IF ss = Exc THEN "raised" ELSE "None")

\* stop_timer clearing _start_time as soon as it has built the PUT payload
stop_timer_clear_early(st, t, entries, us, rs, ss) ==
    LET user_res == GetUser(us)
        running_res == GetRunning(rs, entries)
    IN  IF us = Exc THEN Result(st, <<user_res>>, "", "raised")
        ELSE IF us /= 200 THEN Result(st, <<user_res>>, "Failed to get user info.", "None")
        ELSE IF rs = Exc THEN Result(st, <<user_res, running_res>>, "", "raised")
        ELSE IF rs /= 200 THEN
            Result(st, <<user_res, running_res>>, "Failed to get running timer.", "None")
        ELSE IF running_res.answer = <<>> THEN
            Result(st, <<user_res, running_res>>, "No timer is running.", "None")
        ELSE
            LET stop_payload == Req("PUT", running_res.answer[1].id, st, t,
                                    HARD_PROJECT, HARD_TASK, "", ss, <<>>)
            IN  Result(None, <<user_res, running_res, stop_payload>>,
                       IF ss = Exc THEN ""
                       ELSE IF ss = 200 THEN "Timer stopped." ELSE "Stop failed",
                       IF ss = Exc THEN "raised" ELSE "None")

stop_timer(st, t, entries, us, rs, ss) ==
    LET user_res == GetUser(us)
        running_res == GetRunning(rs, entries)
    IN  IF us = Exc THEN
            Result(st, <<user_res>>, "", "raised")
        ELSE IF us /= 200 THEN
            Result(st, <<user_res>>, "Failed to get user info.", "None")
        ELSE IF rs = Exc THEN
            Result(st, <<user_res, running_res>>, "", "raised")
        ELSE IF rs /= 200 THEN
            Result(st, <<user_res, running_res>>, "Failed to get running timer.", "None")
        ELSE IF running_res.answer = <<>> THEN
            Result(st, <<user_res, running_res>>, "No timer is running.", "None")
        ELSE
            LET stop_payload == Req("PUT", running_res.answer[1].id, st, t,
                                    HARD_PROJECT, HARD_TASK, "", ss, <<>>)
            IN  Result(st, <<user_res, running_res, stop_payload>>,
                       IF ss = Exc THEN ""
                       ELSE IF ss = 200 THEN "Timer stopped."
                       ELSE "Stop failed",
                       IF ss = Exc THEN "raised" ELSE "None")

----------------------------------------------------------------------------
(* The service's side of the two writing requests. *)

\* POST /time-entries answered 201: the created entry is the one in progress
RemoteAfterPost(entries, id, req) ==
    IF req.status = 201
    THEN <<[id |-> id, start |-> req.start,
            projectId |-> req.projectId, taskId |-> req.taskId]>>
    ELSE entries

\* PUT /time-entries/{id} answered 200: the entry has an end, none in progress
RemoteAfterStop(entries, calls) ==
    IF Len(calls) = 3 /\ calls[3].status = 200 THEN <<>> ELSE entries

\* the number the handler prints for a pressed key, int((data[3] - 31) / 2 + 1)
KeyNumber(b3) == (b3 - 31) \div 2 + 1

----------------------------------------------------------------------------
(* State machine *)

\* no Model call has returned yet
NoReturn == [op |-> "none", value |-> <<>>, error |-> ""]

\* a list object holding items
ListObject(items) == [kind |-> "list", id |-> "", name |-> "", items |-> items]

\* Model.__init__: self._projects = [] (gui.py:97); nothing handed out yet
CopyInit ==
    /\ c_heap = <<ListObject(<<>>)>> /\ c_store = 1 /\ c_installed = FALSE
    /\ c_value = <<>> /\ c_held = <<>> /\ c_expect = <<>> /\ c_muts = 0

\* no Presenter has been constructed
PresenterAbsent ==
    /\ p_pc = "none" /\ p_local = <<>> /\ k_local = <<>>
    /\ project_combo = <<>> /\ removed = {}

\* s_exit of a process that has not ended (0 is an exit status)
StillRunning == -1

\* main.py is not being run as a script
ScriptAbsent ==
    /\ s_pc = "none" /\ s_exit = StillRunning /\ s_handler = FALSE /\ s_dropped = 0
    /\ s_printed = <<>>

\* the timer program holds no catalog store
StoreAbsent ==
    /\ pages = <<>> /\ f_pc = "none" /\ page = 0 /\ projects_list = <<>>
    /\ page_items = <<>> /\ page_acc = <<>> /\ f_result = <<>> /\ f_error = ""
    /\ reqs = <<>> /\ m_projects = <<>> /\ m_observers = <<>> /\ mutex = "free"
    /\ n_idx = 0 /\ snapshot = <<>> /\ called = <<>> /\ cb_seen = {}
    /\ installs = 0 /\ m_pc = "none" /\ m_arg = <<>> /\ m_last = NoReturn
    /\ CopyInit
    /\ PresenterAbsent

Init ==
    /\ start_time = None
    /\ PROJECT_ID \in ProjectIdConfigs
    /\ now = 2
    /\ remote \in {<<>>, <<OrphanEntry>>}
    /\ nextId = IF remote = <<>> THEN 1 ELSE 2
    /\ phase = "Idle"
    /\ last = NoCall
    /\ prev = NoCall
    /\ StoreAbsent
    /\ ScriptAbsent

\* on_data_handler, data[8] == 16: start_timer()
Press(data) ==
    /\ data.b8 = 16
    /\ \E status \in PostStatuses :
        LET r == start_timer(start_time, now, PROJECT_ID, status)
        IN  /\ status = 201 => nextId <= MaxEntries
            /\ start_time' = r.start_time
            /\ remote' = RemoteAfterPost(remote, nextId, r.calls[1])
            /\ nextId' = IF status = 201 THEN nextId + 1 ELSE nextId
            /\ phase' = IF status = 201 THEN "Running" ELSE phase
            /\ prev' = last
            /\ last' = Call("press", KeyNumber(data.b3), phase, start_time, r)
    /\ UNCHANGED <<PROJECT_ID, now>>
    /\ UNCHANGED <<svars, cvars, pvars, xvars>>

\* on_data_handler, data[8] == 17: stop_timer()
Release(data) ==
    /\ data.b8 = 17
    /\ \E us \in GetStatuses, rs \in GetStatuses, ss \in PutStatuses :
        LET r == stop_timer(start_time, now, remote, us, rs, ss)
        IN  /\ start_time' = r.start_time
            /\ remote' = RemoteAfterStop(remote, r.calls)
            /\ phase' = IF r.msg \in {"Timer stopped.", "No timer is running."}
                        THEN "Idle" ELSE phase
            /\ prev' = last
            /\ last' = Call("release", data.b3, phase, start_time, r)
    /\ UNCHANGED <<PROJECT_ID, now, nextId>>
    /\ UNCHANGED <<svars, cvars, pvars, xvars>>

\* on_data_handler, any other data[8]: nothing is called
OtherReport(data) ==
    /\ data.b8 /= 16
    /\ data.b8 /= 17
    /\ prev' = last
    /\ last' = Call("other", 0, phase, start_time, Result(start_time, <<>>, "", "None"))
    /\ UNCHANGED <<start_time, PROJECT_ID, now, remote, nextId, phase>>
    /\ UNCHANGED <<svars, cvars, pvars, xvars>>

on_data_handler(data) ==
    \/ Press(data)
    \/ Release(data)
    \/ OtherReport(data)

\* time passes between two reads of the clock
Tick ==
    /\ now < MaxTime
    /\ now' = now + 1
    /\ UNCHANGED <<start_time, PROJECT_ID, remote, nextId, phase, last, prev>>
    /\ UNCHANGED <<svars, cvars, pvars, xvars>>

Next ==
    \/ \E data \in Reports : on_data_handler(data)
    \/ Tick

Spec == Init /\ [][Next]_allvars

----------------------------------------------------------------------------
(* Properties of the timer control path *)

\* the operations of the requests a handler call issued, in order
Ops(c) == [i \in DOMAIN c.calls |-> c.calls[i].op]

HasOp(c, op) == \E i \in DOMAIN c.calls : c.calls[i].op = op

CountOp(c, op) == Cardinality({i \in DOMAIN c.calls : c.calls[i].op = op})

Succeeded(req) == req.status = (IF req.op = "POST" THEN 201 ELSE 200)

\* every request of the handler call was answered with its success status
AllOk(c) == \A i \in DOMAIN c.calls : Succeeded(c.calls[i])

\* a request of the handler call was answered with a failure status
StatusFailure(c) ==
    \E i \in DOMAIN c.calls : ~Succeeded(c.calls[i]) /\ c.calls[i].status /= Exc

\* the entries the in-progress lookup of a release reported (<<>> if it did
\* not get that far)
Reported(c) == IF Len(c.calls) >= 2 THEN c.calls[2].answer ELSE <<>>

StopSequence == <<"GET user", "GET in-progress", "PUT">>

\* C1: a press received while the controller is Running issues no startEntry
\* POST; in particular the second of two presses in a row, the first of which
\* started an entry, issues none.
NoDoubleStart ==
    (last.kind = "press" /\ last.at = "Running") => ~HasOp(last, "POST")

\* C2: when a release has stopped the entry in progress (all its requests
\* succeeding) and the next event is a release whose requests succeed too,
\* the second release finds nothing in progress, sends no PUT and returns
\* normally.
IdempotentStop ==
    (/\ prev.kind = "release" /\ AllOk(prev) /\ HasOp(prev, "PUT")
     /\ last.kind = "release" /\ AllOk(last))
    => /\ CountOp(prev, "PUT") = 1
       /\ Reported(last) = <<>>
       /\ ~HasOp(last, "PUT")
       /\ last.msg = "No timer is running."
       /\ last.outcome = "None"

IdempotentStopWitness ==
    /\ prev.kind = "release" /\ AllOk(prev) /\ HasOp(prev, "PUT")
    /\ prev.at = "Running"
    /\ last.kind = "release" /\ AllOk(last)

\* C3: a release arriving at a fresh controller (no start time recorded)
\* while the service reports an entry in progress sends exactly one PUT, for
\* that entry and with the start time the service reported for it, and the
\* controller is Idle afterwards.
CrashRecoveryStop ==
    (/\ last.kind = "release" /\ last.st0 = None /\ last.at = "Idle"
     /\ Reported(last) /= <<>>)
    => /\ CountOp(last, "PUT") = 1
       /\ last.calls[3].entry = Reported(last)[1].id
       /\ last.calls[3].start = Reported(last)[1].start
       /\ (AllOk(last) => phase = "Idle")

\* C4 as stated: a release received while Idle sends no PUT, whatever the
\* service reports.
ReleaseWhileIdleIgnored ==
    (last.kind = "release" /\ last.at = "Idle") => ~HasOp(last, "PUT")

\* C4 amended: a release received while Idle still performs the two lookups;
\* it sends no PUT when a lookup fails or the service reports nothing in
\* progress, and exactly one PUT, for the reported entry, when the service
\* reports an entry in progress.
ReleaseWhileIdleStopsOnlyReported ==
    (last.kind = "release" /\ last.at = "Idle")
    => /\ HasOp(last, "PUT") <=> Reported(last) /= <<>>
       /\ CountOp(last, "PUT") <= 1
       /\ HasOp(last, "PUT") => last.calls[3].entry = Reported(last)[1].id
       /\ HasOp(last, "GET user")

ReleaseWhileIdleWitness ==
    /\ last.kind = "release" /\ last.at = "Idle"
    /\ HasOp(last, "PUT")
    /\ prev.kind = "release" /\ prev.at = "Idle" /\ ~HasOp(prev, "PUT")

\* C5: a press whose POST is answered with a status other than 201 leaves the
\* controller Idle and the recorded start time as it was before the press,
\* and the next press sends the POST again.
StartFailureLeavesNoTrace ==
    /\ (last.kind = "press" /\ last.at = "Idle" /\ StatusFailure(last))
       => (phase = "Idle" /\ start_time = last.st0)
    /\ (prev.kind = "press" /\ StatusFailure(prev) /\ last.kind = "press")
       => HasOp(last, "POST")

\* C6: a release with a failing request leaves the recorded start time and
\* the phase as they were and sends no request twice; after such a release
\* in Running, a following release whose requests succeed runs the whole
\* stop sequence, with the same start time.
StopFailureRetryable ==
    /\ (last.kind = "release" /\ ~AllOk(last))
       => /\ start_time = last.st0
          /\ phase = last.at
          /\ \A op \in {"GET user", "GET in-progress", "PUT"} : CountOp(last, op) <= 1
    /\ (/\ prev.kind = "release" /\ prev.at = "Running" /\ ~AllOk(prev)
        /\ last.kind = "release" /\ AllOk(last))
       => /\ Ops(last) = StopSequence
          /\ last.calls[3].start = prev.st0

StopFailureRetryableWitness ==
    /\ prev.kind = "release" /\ prev.at = "Running"
    /\ HasOp(prev, "PUT") /\ ~AllOk(prev)
    /\ last.kind = "release" /\ AllOk(last)
    /\ start_time /= None

\* C7: the PUT of a release that stops the entry a press started carries the
\* start time, the project and the task of that entry (those the POST sent)
\* and is addressed to that entry.
StopCarriesStartArguments ==
    (last.kind = "release" /\ last.at = "Running" /\ HasOp(last, "PUT"))
    => /\ last.calls[3].entry = Reported(last)[1].id
       /\ last.calls[3].start = Reported(last)[1].start
       /\ last.calls[3].projectId = Reported(last)[1].projectId
       /\ last.calls[3].taskId = Reported(last)[1].taskId

\* C8: a start time is recorded exactly when the controller is Running.
SessionIffRunning == (start_time /= None) <=> (phase = "Running")

\* C9: a handler call in which a request was answered with a failure status
\* does not end the way a call ends whose requests all succeed.
FailureSurfaced ==
    /\ (last.kind = "press" /\ StatusFailure(last))
       => last.outcome /= start_timer(last.st0, now, PROJECT_ID, 201).outcome
    /\ (last.kind = "release" /\ StatusFailure(last))
       => last.outcome /= stop_timer(last.st0, now, <<OrphanEntry>>, 200, 200, 200).outcome

\* C10: no PUT is sent whose start field is None; a stop without a recorded
\* start time ends as an error.
NoStopWithoutStart ==
    (last.kind = "release" /\ last.st0 = None)
    => /\ \A i \in DOMAIN last.calls :
             last.calls[i].op = "PUT" => last.calls[i].start /= None
       /\ (Reported(last) /= <<>> => last.outcome = "raised")

----------------------------------------------------------------------------
(***************************************************************************)
(* The catalog store of src/gui.py: Clockify.get_projects run by the       *)
(* GetProjectsAndTasks thread, Model (the store and its observers) and     *)
(* the calls the main thread makes on Model.  A thread's step goes from    *)
(* one point where it can be interleaved (a request being answered, the    *)
(* mutex being acquired or released, a callback being called) to the next. *)
(***************************************************************************)

MaxPages == 2        \* the service holds at most MaxPages pages of projects
MaxObservers == 2    \* Model._observers holds at most MaxObservers entries

PAGE_SIZE == 5000

HTTP_OK == 200

FetchStatuses == {HTTP_OK, 500}

Observers == {"o1", "o2"}

\* the projects and tasks the service knows
ServerName(id) ==
    CASE id = "p1" -> "Website" [] id = "p2" -> "Admin" [] id = "p3" -> "Support"
      [] id = "t1" -> "Design" [] id = "t2" -> "Review" [] OTHER -> ""

ServerTaskIds(pid) ==
    CASE pid = "p1" -> <<"t1">> [] pid = "p3" -> <<"t1", "t2">> [] OTHER -> <<>>

\* the JSON object the service lists for a project or a task
Json(id) == [id |-> id, name |-> ServerName(id)]

\* the projects on page n of the service: pages of one and of two projects
PageContent(n) == IF n % 2 = 1 THEN <<"p1">> ELSE <<"p2", "p3">>

\* the service holds 0..MaxPages non-empty pages
PageLayouts == {[n \in 1..k |-> PageContent(n)] : k \in 0..MaxPages}

\* the array a page request answered 200 carries: empty past the last page
ServerPage(layout, n) ==
    IF n \in DOMAIN layout THEN [i \in DOMAIN layout[n] |-> Json(layout[n][i])]
    ELSE <<>>

\* the array a task request answered 200 carries
ServerTasks(pid) == [i \in DOMAIN ServerTaskIds(pid) |-> Json(ServerTaskIds(pid)[i])]

\* a request as logged: status is Pending until the answer arrives
Pending == 0

PageRequest(n) ==
    [kind |-> "projects", page |-> n, size |-> PAGE_SIZE, project |-> "", status |-> Pending]

TaskRequest(pid) ==
    [kind |-> "tasks", page |-> 1, size |-> PAGE_SIZE, project |-> pid, status |-> Pending]

\* the log with the outstanding (last) request answered
Answered(log, status) == [log EXCEPT ![Len(log)].status = status]

ClockifyTask(id, name) == [id |-> id, name |-> name]

\* a project built without the tasks fetched for it
ClockifyProject_without_tasks(id, name, tasks) == [id |-> id, name |-> name, tasks |-> <<>>]

ClockifyProject(id, name, tasks) == [id |-> id, name |-> name, tasks |-> tasks]

\* get_projects ending the loop at a page shorter than the page size
page_response_short_page(list, status, items) ==
    IF status = HTTP_OK THEN
        IF Len(items) >= PAGE_SIZE
        THEN [next |-> "tasks", value |-> list, error |-> ""]
        ELSE [next |-> "return", value |-> list, error |-> ""]
    ELSE [next |-> "raise", value |-> <<>>, error |-> "AttributeError"]

\* get_projects leaving the loop on a bad status and returning what it has
page_response_break_on_error(list, status, items) ==
    IF status = HTTP_OK /\ Len(items) > 0
    THEN [next |-> "tasks", value |-> list, error |-> ""]
    ELSE [next |-> "return", value |-> list, error |-> ""]

\* get_projects on the answer to a page request (gui.py:50-57): go on to the
\* tasks of the page's projects, return projects_list, or raise.  The raise
\* statement evaluates response.text.decode(), which a str does not have.
page_response(list, status, items) ==
    IF status = HTTP_OK THEN
        IF Len(items) > 0
        THEN [next |-> "tasks", value |-> list, error |-> ""]
        ELSE [next |-> "return", value |-> list, error |-> ""]
    ELSE [next |-> "raise", value |-> <<>>, error |-> "AttributeError"]

\* _get_project_tasks on the answer to its request (gui.py:69-74)
task_response(status, tasks) ==
    IF status /= HTTP_OK
    THEN [next |-> "raise", value |-> <<>>, error |-> "AttributeError"]
    ELSE [next |-> "return",
          value |-> [i \in DOMAIN tasks |-> ClockifyTask(tasks[i].id, tasks[i].name)],
          error |-> ""]

\* run calling the callback whether or not get_projects raised
run_next_always_cb(r) == "cb_lock"

\* GetProjectsAndTasks.run after get_projects (gui.py:87-88): the callback is
\* called with what get_projects returned; an exception ends the thread
run_next(r) == IF r.next = "raise" THEN "dead" ELSE "cb_lock"

\* Model.__init__ (gui.py:95-100) with the thread started, for a service
\* holding some pages of projects
ModelInit ==
    /\ pages \in PageLayouts
    /\ f_pc = "run" /\ page = 0 /\ projects_list = <<>>
    /\ page_items = <<>> /\ page_acc = <<>> /\ f_result = <<>> /\ f_error = ""
    /\ reqs = <<>> /\ m_projects = <<>> /\ m_observers = <<>> /\ mutex = "free"
    /\ n_idx = 0 /\ snapshot = <<>> /\ called = <<>> /\ cb_seen = {}
    /\ installs = 0 /\ m_pc = "idle" /\ m_arg = <<>> /\ m_last = NoReturn
    /\ CopyInit

\* the GUI program has no timer
TimerAbsent ==
    /\ start_time = None /\ PROJECT_ID = "" /\ now = 2 /\ remote = <<>>
    /\ nextId = 1 /\ phase = "Idle" /\ last = NoCall /\ prev = NoCall

SInit ==
    /\ ModelInit
    /\ TimerAbsent
    /\ PresenterAbsent
    /\ ScriptAbsent

\* run() up to the first page request of get_projects (gui.py:83-48)
FetchStart ==
    /\ f_pc = "run"
    /\ page' = page + 1
    /\ reqs' = Append(reqs, PageRequest(page + 1))
    /\ f_pc' = "page_wait"
    /\ UNCHANGED <<pages, projects_list, page_items, page_acc, f_result, f_error,
                   m_projects, m_observers, mutex, n_idx, snapshot, called,
                   cb_seen, installs, m_pc, m_arg, m_last>>
    /\ UNCHANGED <<vars, cvars, pvars, xvars>>

\* a page request is answered
FetchPageResponse ==
    /\ f_pc = "page_wait"
    /\ \E status \in FetchStatuses :
        LET items == IF status = HTTP_OK THEN ServerPage(pages, page) ELSE <<>>
            r == page_response(projects_list, status, items)
        IN  \/ /\ r.next = "tasks"
               /\ page_items' = items
               /\ page_acc' = <<>>
               /\ reqs' = Append(Answered(reqs, status), TaskRequest(items[1].id))
               /\ f_pc' = "task_wait"
               /\ UNCHANGED <<f_result, f_error>>
            \/ /\ r.next = "return"
               /\ f_result' = r.value
               /\ f_pc' = run_next(r)
               /\ reqs' = Answered(reqs, status)
               /\ UNCHANGED <<page_items, page_acc, f_error>>
            \/ /\ r.next = "raise"
               /\ f_error' = r.error
               /\ f_pc' = run_next(r)
               /\ reqs' = Answered(reqs, status)
               /\ UNCHANGED <<page_items, page_acc, f_result>>
    /\ UNCHANGED <<pages, page, projects_list, m_projects, m_observers, mutex,
                   n_idx, snapshot, called, cb_seen, installs, m_pc, m_arg, m_last>>
    /\ UNCHANGED <<vars, cvars, pvars, xvars>>

\* a task request is answered; after the last project of the page the page is
\* added to projects_list and the next page is requested (gui.py:53, 45-48)
FetchTaskResponse ==
    /\ f_pc = "task_wait"
    /\ \E status \in FetchStatuses :
        LET project == page_items[Len(page_acc) + 1]
            r == task_response(status,
                               IF status = HTTP_OK THEN ServerTasks(project.id) ELSE <<>>)
            acc == Append(page_acc, ClockifyProject(project.id, project.name, r.value))
        IN  \/ /\ r.next = "raise"
               /\ f_error' = r.error
               /\ f_pc' = run_next(r)
               /\ reqs' = Answered(reqs, status)
               /\ UNCHANGED <<page, projects_list, page_acc>>
            \/ /\ r.next = "return"
               /\ Len(acc) < Len(page_items)
               /\ page_acc' = acc
               /\ reqs' = Append(Answered(reqs, status),
                                 TaskRequest(page_items[Len(acc) + 1].id))
               /\ UNCHANGED <<page, projects_list, f_pc, f_error>>
            \/ /\ r.next = "return"
               /\ Len(acc) = Len(page_items)
               /\ page_acc' = acc
               /\ projects_list' = projects_list \o acc
               /\ page' = page + 1
               /\ reqs' = Append(Answered(reqs, status), PageRequest(page + 1))
               /\ f_pc' = "page_wait"
               /\ UNCHANGED f_error
    /\ UNCHANGED <<pages, page_items, f_result, m_projects, m_observers, mutex,
                   n_idx, snapshot, called, cb_seen, installs, m_pc, m_arg, m_last>>
    /\ UNCHANGED <<vars, cvars, pvars, xvars>>

----------------------------------------------------------------------------
(* Model: cb and notify_observers on the fetch thread (gui.py:102-121) *)

getvars == <<pages, page, projects_list, page_items, page_acc, f_result, f_error, reqs>>

mainvars == <<m_pc, m_arg, m_last>>

\* cb assigning to something other than self._projects
cb_store_elsewhere(stored, projects) == stored

\* cb: self._projects = projects (gui.py:104)
cb_store(stored, projects) == projects

\* cb calling notify_observers inside the with block
cb_with_exit_after_notify(owner) == owner

\* cb: the with block is left before notify_observers is called (gui.py:103-106)
cb_with_exit(owner) == "free"

\* a reader returning without releasing the mutex
reader_keeps_mutex(owner) == owner

\* get_projects / get_tasks_for_project: the with block is left once the copy
\* is made (gui.py:126-128, 133-136)
reader_with_exit(owner) == "free"

\* cb reaches "with self._mutex" and gets the mutex
CbAcquire ==
    /\ f_pc = "cb_lock"
    /\ mutex = "free"
    /\ mutex' = "fetch"
    /\ f_pc' = "cb_in"
    /\ UNCHANGED <<getvars, mainvars, m_projects, m_observers, n_idx, snapshot,
                   called, cb_seen, installs>>
    /\ UNCHANGED <<vars, cvars, pvars, xvars>>

\* cb assigns the list, leaves the with block and enters notify_observers
CbInstall ==
    /\ f_pc = "cb_in"
    /\ m_projects' = cb_store(m_projects, f_result)
    /\ installs' = installs + 1
    /\ mutex' = cb_with_exit(mutex)
    /\ n_idx' = 0
    /\ snapshot' = m_observers
    /\ f_pc' = "notify"
    /\ UNCHANGED <<getvars, mainvars, m_observers, called, cb_seen>>
    /\ UNCHANGED <<vars, cvars, pvars, xvars>>

\* notify_observers: the for loop asks the list iterator for the next callback
\* and calls it, or ends (gui.py:120-121)
NotifyNext ==
    /\ f_pc = "notify"
    /\ IF n_idx < Len(m_observers)
       THEN /\ called' = Append(called, m_observers[n_idx + 1])
            /\ n_idx' = n_idx + 1
            /\ f_pc' = "cbk_lock"
       ELSE /\ f_pc' = "done"
            /\ UNCHANGED <<called, n_idx>>
    /\ UNCHANGED <<getvars, mainvars, m_projects, m_observers, mutex, snapshot,
                   cb_seen, installs>>
    /\ UNCHANGED <<vars, cvars, pvars, xvars>>

\* the callback (Presenter.on_model_updated, gui.py:403-412) calls get_projects
\* and gets the mutex
CallbackAcquire ==
    /\ f_pc \in {"cbk_lock", "cbk_tlock"}
    /\ mutex = "free"
    /\ mutex' = "fetch"
    /\ f_pc' = IF f_pc = "cbk_lock" THEN "cbk_copy" ELSE "cbk_tcopy"
    /\ UNCHANGED <<getvars, mainvars, m_projects, m_observers, n_idx, snapshot,
                   called, cb_seen, installs>>
    /\ UNCHANGED <<vars, cvars, pvars, xvars>>

\* the callback's get_projects copies and returns; the callback then asks for
\* the tasks of a selected project, or returns
CallbackCopy ==
    /\ f_pc = "cbk_copy"
    /\ cb_seen' = cb_seen \cup {m_projects}
    /\ mutex' = reader_with_exit(mutex)
    /\ \/ f_pc' = "notify"
       \/ m_projects /= <<>> /\ f_pc' = "cbk_tlock"
    /\ UNCHANGED <<getvars, mainvars, m_projects, m_observers, n_idx, snapshot,
                   called, installs>>
    /\ UNCHANGED <<vars, cvars, pvars, xvars>>

\* the callback's get_tasks_for_project copies and returns; the callback returns
CallbackTasksCopy ==
    /\ f_pc = "cbk_tcopy"
    /\ mutex' = reader_with_exit(mutex)
    /\ f_pc' = "notify"
    /\ UNCHANGED <<getvars, mainvars, m_projects, m_observers, n_idx, snapshot,
                   called, cb_seen, installs>>
    /\ UNCHANGED <<vars, cvars, pvars, xvars>>

----------------------------------------------------------------------------
(* Model: the calls of the main thread (gui.py:108-149) *)

\* the sequence without its first occurrence of x (list.remove)
RemoveFirst(seq, x) ==
    LET i == CHOOSE k \in DOMAIN seq :
                 seq[k] = x /\ \A j \in 1..(k - 1) : seq[j] /= x
    IN  SubSeq(seq, 1, i - 1) \o SubSeq(seq, i + 1, Len(seq))

IsIn(seq, x) == \E k \in DOMAIN seq : seq[k] = x

\* add_observer (gui.py:108-110)
add_observer(observers, callback) == Append(observers, callback)

\* remove_observer (gui.py:112-115)
remove_observer(observers, callback) ==
    IF IsIn(observers, callback) THEN RemoveFirst(observers, callback) ELSE observers

\* add_project appending to the stored catalog
add_project_to_catalog(stored, project, tasks) ==
    [stored |-> Append(stored, ClockifyProject(project, project, tasks)), error |-> ""]

\* add_project (gui.py:138-143): self._projects_data is never created, so the
\* assignment raises before notify_observers
add_project(stored, project, tasks) ==
    [stored |-> stored, error |-> "AttributeError"]

\* update_project_tasks (gui.py:145-149): the test of self._projects_data raises
update_project_tasks(stored, project, tasks) ==
    [stored |-> stored, error |-> "AttributeError"]

AddObserver(o) ==
    /\ m_pc = "idle"
    /\ Len(m_observers) < MaxObservers
    /\ m_observers' = add_observer(m_observers, o)
    /\ UNCHANGED <<getvars, mainvars, f_pc, m_projects, mutex, n_idx, snapshot,
                   called, cb_seen, installs>>
    /\ UNCHANGED <<vars, cvars, pvars, xvars>>

RemoveObserver(o) ==
    /\ m_pc = "idle"
    /\ m_observers' = remove_observer(m_observers, o)
    /\ UNCHANGED <<getvars, mainvars, f_pc, m_projects, mutex, n_idx, snapshot,
                   called, cb_seen, installs>>
    /\ UNCHANGED <<vars, cvars, pvars, xvars>>

\* the main thread calls get_projects, or get_tasks_for_project with a project
\* of the catalog it read last, and reaches "with self._mutex"
MainCall ==
    /\ m_pc = "idle"
    /\ \/ m_pc' = "lock" /\ UNCHANGED m_arg
       \/ /\ m_last.op = "get_projects"
          /\ \E i \in DOMAIN m_last.value :
                /\ m_arg' = m_last.value[i]
                /\ m_pc' = "tlock"
    /\ UNCHANGED <<getvars, m_last, f_pc, m_projects, m_observers, mutex, n_idx,
                   snapshot, called, cb_seen, installs>>
    /\ UNCHANGED <<vars, cvars, pvars, xvars>>

MainAcquire ==
    /\ m_pc \in {"lock", "tlock"}
    /\ mutex = "free"
    /\ mutex' = "main"
    /\ m_pc' = IF m_pc = "lock" THEN "copy" ELSE "tcopy"
    /\ UNCHANGED <<getvars, m_arg, m_last, f_pc, m_projects, m_observers, n_idx,
                   snapshot, called, cb_seen, installs>>
    /\ UNCHANGED <<vars, cvars, pvars, xvars>>

\* get_projects copies under the mutex and returns (gui.py:126-128)
MainCopy ==
    /\ m_pc = "copy"
    /\ m_last' = [op |-> "get_projects", value |-> m_projects, error |-> ""]
    /\ mutex' = reader_with_exit(mutex)
    /\ m_pc' = "idle"
    /\ UNCHANGED <<getvars, m_arg, f_pc, m_projects, m_observers, n_idx,
                   snapshot, called, cb_seen, installs>>
    /\ UNCHANGED <<vars, cvars, pvars, xvars>>

\* get_tasks_for_project copies under the mutex and returns (gui.py:133-136)
MainTasksCopy ==
    /\ m_pc = "tcopy"
    /\ m_last' = [op |-> "get_tasks_for_project", value |-> m_arg.tasks, error |-> ""]
    /\ mutex' = reader_with_exit(mutex)
    /\ m_pc' = "idle"
    /\ m_arg' = <<>>
    /\ UNCHANGED <<getvars, f_pc, m_projects, m_observers, n_idx,
                   snapshot, called, cb_seen, installs>>
    /\ UNCHANGED <<vars, cvars, pvars, xvars>>

AddProject ==
    /\ m_pc = "idle"
    /\ \E project \in {"p1"} :
        LET r == add_project(m_projects, project, <<>>)
        IN  /\ m_projects' = r.stored
            /\ m_last' = [op |-> "add_project", value |-> <<>>, error |-> r.error]
    /\ UNCHANGED <<getvars, m_pc, m_arg, f_pc, m_observers, mutex, n_idx,
                   snapshot, called, cb_seen, installs>>
    /\ UNCHANGED <<vars, cvars, pvars, xvars>>

UpdateProjectTasks ==
    /\ m_pc = "idle"
    /\ \E project \in {"p1"} :
        LET r == update_project_tasks(m_projects, project, <<"t9">>)
        IN  /\ m_projects' = r.stored
            /\ m_last' = [op |-> "update_project_tasks", value |-> <<>>, error |-> r.error]
    /\ UNCHANGED <<getvars, m_pc, m_arg, f_pc, m_observers, mutex, n_idx,
                   snapshot, called, cb_seen, installs>>
    /\ UNCHANGED <<vars, cvars, pvars, xvars>>

SNext ==
    \/ FetchStart
    \/ FetchPageResponse
    \/ FetchTaskResponse
    \/ CbAcquire
    \/ CbInstall
    \/ NotifyNext
    \/ CallbackAcquire
    \/ CallbackCopy
    \/ CallbackTasksCopy
    \/ \E o \in Observers : AddObserver(o)
    \/ \E o \in Observers : RemoveObserver(o)
    \/ MainCall
    \/ MainAcquire
    \/ MainCopy
    \/ MainTasksCopy
    \/ AddProject
    \/ UpdateProjectTasks

SpecStore == SInit /\ [][SNext]_allvars

----------------------------------------------------------------------------
(* Properties of the catalog store *)

RECURSIVE ResolvedPages(_, _)
\* the projects of pages n.. of the service, each with the tasks the service
\* lists for it
ResolvedPages(layout, n) ==
    IF n > Len(layout) THEN <<>>
    ELSE [i \in DOMAIN layout[n] |->
             [id |-> layout[n][i], name |-> ServerName(layout[n][i]),
              tasks |-> ServerTasks(layout[n][i])]]
         \o ResolvedPages(layout, n + 1)

CompleteCatalog == ResolvedPages(pages, 1)

IsPageRequest(r) == r.kind = "projects"

PageRequests == SelectSeq(reqs, IsPageRequest)

\* get_projects has returned its list to run()
Returned == f_pc \in {"cb_lock", "cb_in", "notify", "cbk_lock", "cbk_copy",
                      "cbk_tlock", "cbk_tcopy", "done"}

RequestOutstanding == f_pc \in {"page_wait", "task_wait"}

InCallback == f_pc \in {"cbk_lock", "cbk_copy", "cbk_tlock", "cbk_tcopy"}

\* a request of the fetch was answered with a status other than 200
FetchFailed == \E i \in DOMAIN reqs : reqs[i].status \notin {Pending, HTTP_OK}

\* the catalogs get_projects has returned, to the main thread and to callbacks
ReadValues ==
    cb_seen \cup (IF m_last.op = "get_projects" THEN {m_last.value} ELSE {})

TimesCalled(o) == Cardinality({i \in DOMAIN called : called[i] = o})

\* C11: the page requests are for pages 1, 2, 3, ... in that order; when
\* get_projects returns from a service holding N non-empty pages (of any
\* length below the page size) it has issued exactly N + 1 page requests and
\* returns the projects of pages 1..N in the service's order.
Pagination ==
    /\ \A i \in DOMAIN PageRequests : PageRequests[i].page = i
    /\ Returned => /\ Len(PageRequests) = Len(pages) + 1
                   /\ f_result = CompleteCatalog
                   /\ \A i \in DOMAIN reqs : reqs[i].status = HTTP_OK

PaginationWitness ==
    /\ Returned
    /\ Len(pages) = 2
    /\ Len(f_result) = 3

\* C12: once a page request or a task request has been answered with a
\* non-success status, that request is the last one issued, the thread has
\* ended with an exception, and get_projects has returned nothing: no list
\* reaches the callback or the store.
FetchAbortsOnFirstFailure ==
    FetchFailed
    => /\ reqs[Len(reqs)].status \notin {Pending, HTTP_OK}
       /\ \A i \in 1..(Len(reqs) - 1) : reqs[i].status = HTTP_OK
       /\ f_pc = "dead"
       /\ f_error /= ""
       /\ ~Returned
       /\ f_result = <<>>
       /\ installs = 0

FetchAbortsWitness ==
    /\ FetchFailed
    /\ projects_list /= <<>>
    /\ reqs[Len(reqs)].kind = "tasks"

\* C13: the stored catalog and every catalog get_projects has returned is
\* either empty or the complete list a finished get_projects call returned,
\* every project carrying the tasks the service lists for it.
CatalogAtomicity ==
    \A v \in ReadValues \cup {m_projects} :
        \/ v = <<>>
        \/ /\ Returned
           /\ v = f_result
           /\ \A i \in DOMAIN v : v[i].tasks = ServerTasks(v[i].id)
           /\ Len(v) = Len(CompleteCatalog)

CatalogAtomicityWitness ==
    /\ \E v \in ReadValues : v /= <<>>
    /\ Len(pages) = 2

\* C14: after a failed request of the fetch the stored catalog is the empty
\* one it was before, cb has never run, no observer has been called, the
\* fetch thread does not own the mutex and every read has returned the empty
\* catalog.
FailedFetchSilent ==
    FetchFailed
    => /\ m_projects = <<>>
       /\ installs = 0
       /\ called = <<>>
       /\ mutex /= "fetch"
       /\ \A v \in ReadValues : v = <<>>

FailedFetchSilentWitness ==
    /\ FetchFailed
    /\ projects_list /= <<>>
    /\ m_observers /= <<>>
    /\ m_last.op = "get_projects"
    /\ m_pc = "copy"

\* C15: when a notification round is over (and Model._observers is what it
\* was when the round began), every observer registered when the round began
\* has been called exactly once, none more than once, and every other
\* observer not at all.
NotificationCount ==
    (f_pc = "done" /\ m_observers = snapshot)
    => \A o \in Observers : TimesCalled(o) = (IF IsIn(snapshot, o) THEN 1 ELSE 0)

\* C16: an observer is called only after cb has installed the catalog
\* get_projects returned, and every get_projects call made inside a callback
\* returns that catalog.
NotificationOrdering ==
    /\ (called /= <<>>) => (installs = 1 /\ m_projects = f_result)
    /\ \A v \in cb_seen : v = f_result

NotificationOrderingWitness ==
    /\ cb_seen /= {}
    /\ f_result /= <<>>
    /\ Len(called) = 2

\* C18 as stated: while a page or task request is outstanding no thread owns
\* the mutex.
MutexFreeWhileRequestOutstanding == RequestOutstanding => mutex = "free"

\* C18 amended: the thread that has a request outstanding does not own the
\* mutex; the mutex is owned only by a thread that is inside cb's assignment
\* or inside the copy of get_projects / get_tasks_for_project.
NoRequestUnderMutex ==
    /\ RequestOutstanding => mutex /= "fetch"
    /\ mutex = "fetch" => f_pc \in {"cb_in", "cbk_copy", "cbk_tcopy"}
    /\ mutex = "main" => m_pc \in {"copy", "tcopy"}

NoRequestUnderMutexWitness ==
    /\ RequestOutstanding
    /\ mutex = "main"
    /\ m_last.op = "get_projects"

NoSelfDeadlock ==
    /\ ~(f_pc \in {"cb_lock", "cbk_lock", "cbk_tlock"} /\ mutex = "fetch")
    /\ ~(m_pc \in {"lock", "tlock"} /\ mutex = "main")
    /\ f_pc = "notify" => mutex /= "fetch"

NoSelfDeadlockWitness ==
    /\ f_pc = "cbk_tcopy"
    /\ mutex = "fetch"
    /\ m_pc = "lock"

----------------------------------------------------------------------------
(***************************************************************************)
(* The objects behind the catalog (src/gui.py).  Model._projects refers to *)
(* a list object of ClockifyProject objects, each referring to the list    *)
(* object of its tasks; get_projects and get_tasks_for_project hand out    *)
(* copy.deepcopy of such objects, which their callers are free to change.  *)
(* Objects live in c_heap and are named by their index in it.              *)
(***************************************************************************)

MaxCopies == 2      \* get_projects / get_tasks_for_project return at most MaxCopies copies
MaxMutations == 2   \* callers make at most MaxMutations changes to what they hold

\* a ClockifyProject object: its tasks attribute refers to a list object
ProjectObject(id, name, tasks_ref) ==
    [kind |-> "project", id |-> id, name |-> name, items |-> <<tasks_ref>>]

\* a new object on the heap
Alloc(h, obj) == [heap |-> Append(h, obj), ref |-> Len(h) + 1]

\* copy.deepcopy of a list of ClockifyTask objects
deepcopy_tasks(h, ref) == Alloc(h, ListObject(h[ref].items))

\* copy.deepcopy of a ClockifyProject object
deepcopy_project(h, ref) ==
    LET t == deepcopy_tasks(h, h[ref].items[1])
    IN  Alloc(t.heap, ProjectObject(h[ref].id, h[ref].name, t.ref))

RECURSIVE deepcopy_items(_, _, _)
\* copy.deepcopy of the projects items[i..]
deepcopy_items(h, items, i) ==
    IF i > Len(items) THEN [heap |-> h, refs |-> <<>>]
    ELSE LET p == deepcopy_project(h, items[i])
             rest == deepcopy_items(p.heap, items, i + 1)
         IN  [heap |-> rest.heap, refs |-> <<p.ref>> \o rest.refs]

\* get_projects handing out a new list of the same project objects
get_projects_shallow(h, store) == Alloc(h, ListObject(h[store].items))

\* get_projects: copy.deepcopy(self._projects) (gui.py:125-128)
get_projects_copy(h, store) ==
    LET c == deepcopy_items(h, h[store].items, 1)
    IN  Alloc(c.heap, ListObject(c.refs))

\* get_tasks_for_project: copy.deepcopy(project.tasks) (gui.py:132-136)
get_tasks_for_project_copy(h, project) == deepcopy_tasks(h, h[project].items[1])

RECURSIVE build_projects(_, _, _)
\* the objects get_projects (the fetch) creates for the projects value[i..]
build_projects(h, value, i) ==
    IF i > Len(value) THEN [heap |-> h, refs |-> <<>>]
    ELSE LET t == Alloc(h, ListObject(value[i].tasks))
             p == Alloc(t.heap, ProjectObject(value[i].id, value[i].name, t.ref))
             rest == build_projects(p.heap, value, i + 1)
         IN  [heap |-> rest.heap, refs |-> <<p.ref>> \o rest.refs]

RECURSIVE fetched(_, _)
\* the value of the list a successful fetch returns for a service layout
fetched(layout, n) ==
    IF n > Len(layout) THEN <<>>
    ELSE [i \in DOMAIN layout[n] |->
             ClockifyProject(layout[n][i], ServerName(layout[n][i]),
                             ServerTasks(layout[n][i]))]
         \o fetched(layout, n + 1)

\* what a catalog list object reads as
CatalogView(h, ref) ==
    [i \in DOMAIN h[ref].items |->
        LET p == h[h[ref].items[i]]
        IN  ClockifyProject(p.id, p.name, h[p.items[1]].items)]

\* what a task list object reads as
TasksView(h, ref) == h[ref].items

HeldView(h, held) ==
    IF held.kind = "catalog" THEN CatalogView(h, held.ref) ELSE TasksView(h, held.ref)

\* the objects reachable from a catalog list or a task list
ObjectsOf(h, held) ==
    IF held.kind = "tasks" THEN {held.ref}
    ELSE {held.ref}
         \cup {h[held.ref].items[i] : i \in DOMAIN h[held.ref].items}
         \cup {h[h[held.ref].items[i]].items[1] : i \in DOMAIN h[held.ref].items}

ExtraTask == ClockifyTask("tX", "Extra")

\* cb: self._projects = projects, the list a finished fetch built (gui.py:102-104)
StoreInstall ==
    /\ ~c_installed
    /\ LET value == fetched(pages, 1)
           b == build_projects(c_heap, value, 1)
           l == Alloc(b.heap, ListObject(b.refs))
       IN  /\ c_heap' = l.heap
           /\ c_store' = cb_store(c_store, l.ref)
           /\ c_value' = value
    /\ c_installed' = TRUE
    /\ UNCHANGED <<c_held, c_expect, c_muts>>
    /\ UNCHANGED <<vars, svars, pvars, xvars>>

\* a caller calls get_projects and keeps what it returns
CallerGetProjects ==
    /\ Len(c_held) < MaxCopies
    /\ LET r == get_projects_copy(c_heap, c_store)
       IN  /\ c_heap' = r.heap
           /\ c_held' = Append(c_held, [kind |-> "catalog", ref |-> r.ref])
           /\ c_expect' = Append(c_expect, c_value)
    /\ UNCHANGED <<c_store, c_installed, c_value, c_muts>>
    /\ UNCHANGED <<vars, svars, pvars, xvars>>

\* a caller calls get_tasks_for_project with a project of a catalog it holds
CallerGetTasks ==
    /\ Len(c_held) < MaxCopies
    /\ \E k \in DOMAIN c_held :
        /\ c_held[k].kind = "catalog"
        /\ \E i \in DOMAIN c_heap[c_held[k].ref].items :
            LET r == get_tasks_for_project_copy(c_heap, c_heap[c_held[k].ref].items[i])
            IN  /\ c_heap' = r.heap
                /\ c_held' = Append(c_held, [kind |-> "tasks", ref |-> r.ref])
                /\ c_expect' = Append(c_expect, c_expect[k][i].tasks)
    /\ UNCHANGED <<c_store, c_installed, c_value, c_muts>>
    /\ UNCHANGED <<vars, svars, pvars, xvars>>

\* a caller removes the last element of a list it was handed
CallerPop ==
    /\ c_muts < MaxMutations
    /\ \E k \in DOMAIN c_held :
        LET ref == c_held[k].ref
            n == Len(c_heap[ref].items)
        IN  /\ n > 0
            /\ c_heap' = [c_heap EXCEPT ![ref].items = SubSeq(@, 1, n - 1)]
            /\ c_expect' = [c_expect EXCEPT ![k] = SubSeq(@, 1, Len(@) - 1)]
    /\ c_muts' = c_muts + 1
    /\ UNCHANGED <<c_store, c_installed, c_value, c_held>>
    /\ UNCHANGED <<vars, svars, pvars, xvars>>

\* a caller appends a task to a task list it was handed, or to the task list
\* of a project of a catalog it was handed
CallerAppendTask ==
    /\ c_muts < MaxMutations
    /\ \E k \in DOMAIN c_held :
        IF c_held[k].kind = "tasks"
        THEN /\ c_heap' = [c_heap EXCEPT ![c_held[k].ref].items = Append(@, ExtraTask)]
             /\ c_expect' = [c_expect EXCEPT ![k] = Append(@, ExtraTask)]
        ELSE \E i \in DOMAIN c_heap[c_held[k].ref].items :
                LET t == c_heap[c_heap[c_held[k].ref].items[i]].items[1]
                IN  /\ c_heap' = [c_heap EXCEPT ![t].items = Append(@, ExtraTask)]
                    /\ c_expect' = [c_expect EXCEPT ![k][i].tasks = Append(@, ExtraTask)]
    /\ c_muts' = c_muts + 1
    /\ UNCHANGED <<c_store, c_installed, c_value, c_held>>
    /\ UNCHANGED <<vars, svars, pvars, xvars>>

\* a caller renames a project of a catalog it was handed
CallerRename ==
    /\ c_muts < MaxMutations
    /\ \E k \in DOMAIN c_held :
        /\ c_held[k].kind = "catalog"
        /\ \E i \in DOMAIN c_heap[c_held[k].ref].items :
            /\ c_heap' = [c_heap EXCEPT ![c_heap[c_held[k].ref].items[i]].name = "Renamed"]
            /\ c_expect' = [c_expect EXCEPT ![k][i].name = "Renamed"]
    /\ c_muts' = c_muts + 1
    /\ UNCHANGED <<c_store, c_installed, c_value, c_held>>
    /\ UNCHANGED <<vars, svars, pvars, xvars>>

CNext ==
    \/ StoreInstall
    \/ CallerGetProjects
    \/ CallerGetTasks
    \/ CallerPop
    \/ CallerAppendTask
    \/ CallerRename

SpecCopy == SInit /\ [][CNext]_allvars

\* C17: get_projects returns the empty catalog before cb has installed a list
\* and the installed catalog afterwards; whatever callers do to the lists and
\* projects they were handed, the stored catalog reads as installed, every
\* copy reads as returned plus the changes made to that copy alone, and no
\* object is shared between the store and a copy or between two copies.
CopyOutIsolation ==
    /\ CatalogView(c_heap, c_store) = c_value
    /\ ~c_installed => c_value = <<>>
    /\ \A k \in DOMAIN c_held : HeldView(c_heap, c_held[k]) = c_expect[k]
    /\ \A k \in DOMAIN c_held :
          ObjectsOf(c_heap, c_held[k])
          \cap ObjectsOf(c_heap, [kind |-> "catalog", ref |-> c_store]) = {}
    /\ \A k, j \in DOMAIN c_held :
          k /= j => ObjectsOf(c_heap, c_held[k]) \cap ObjectsOf(c_heap, c_held[j]) = {}

CopyOutIsolationWitness ==
    /\ c_installed
    /\ Len(c_value) = 3
    /\ Len(c_held) = 2
    /\ c_held[1].kind = "catalog"
    /\ c_muts = 2
    /\ c_expect[1] /= c_value
    /\ c_expect[2] /= <<>>

----------------------------------------------------------------------------
(***************************************************************************)
(* App.OnInit (gui.py:454-461): Model() starts the fetch thread, then      *)
(* Presenter(model, view) registers on_model_updated as an observer and    *)
(* calls it once itself.  notify_observers calls the same method on the    *)
(* fetch thread, so two calls of on_model_updated can be in progress at    *)
(* once; nothing but the mutex inside get_projects orders them.            *)
(***************************************************************************)

\* the bound method Presenter.on_model_updated as an entry of Model._observers
on_model_updated == "on_model_updated"

\* MainView.populate_projects (gui.py:257-261): Clear(), then one item per
\* project carrying the project as client data
populate_projects(items, projects) == projects

\* MainView.get_selected_project (gui.py:270-278) right after
\* populate_projects: Clear() left no selection, so GetSelection() is below 0
\* and the result is the empty string
get_selected_project(items) == ""

\* App.OnInit has made the Model and the view (gui.py:456-457)
PInit ==
    /\ ModelInit
    /\ TimerAbsent
    /\ ScriptAbsent
    /\ p_pc = "construct" /\ p_local = <<>> /\ k_local = <<>>
    /\ project_combo = <<>> /\ removed = {}

\* Presenter.__init__ up to the call of on_model_updated (gui.py:393-401) and
\* on to "with self._mutex" of get_projects
PresenterSubscribe ==
    /\ p_pc = "construct"
    /\ m_observers' = add_observer(m_observers, on_model_updated)
    /\ p_pc' = "pull_lock"
    /\ UNCHANGED <<getvars, mainvars, f_pc, m_projects, mutex, n_idx, snapshot,
                   called, cb_seen, installs>>
    /\ UNCHANGED <<p_local, k_local, project_combo, removed>>
    /\ UNCHANGED <<vars, cvars, xvars>>

PresenterAcquire ==
    /\ p_pc = "pull_lock"
    /\ mutex = "free"
    /\ mutex' = "main"
    /\ p_pc' = "pull_copy"
    /\ UNCHANGED <<getvars, mainvars, f_pc, m_projects, m_observers, n_idx,
                   snapshot, called, cb_seen, installs>>
    /\ UNCHANGED <<p_local, k_local, project_combo, removed>>
    /\ UNCHANGED <<vars, cvars, xvars>>

\* projects = self.model.get_projects() on the main thread (gui.py:405)
PresenterCopy ==
    /\ p_pc = "pull_copy"
    /\ p_local' = m_projects
    /\ mutex' = reader_with_exit(mutex)
    /\ p_pc' = "pull_show"
    /\ UNCHANGED <<getvars, mainvars, f_pc, m_projects, m_observers, n_idx,
                   snapshot, called, cb_seen, installs>>
    /\ UNCHANGED <<k_local, project_combo, removed>>
    /\ UNCHANGED <<vars, cvars, xvars>>

\* the rest of on_model_updated on the main thread (gui.py:406-412): the view
\* is filled; with nothing selected the tasks are not asked for
PresenterShow ==
    /\ p_pc = "pull_show"
    /\ project_combo' = populate_projects(project_combo, p_local)
    /\ get_selected_project(project_combo') = ""
    /\ p_pc' = "ready"
    /\ UNCHANGED svars
    /\ UNCHANGED <<p_local, k_local, removed>>
    /\ UNCHANGED <<vars, cvars, xvars>>

\* projects = self.model.get_projects() in the call made by notify_observers
ObserverCopy ==
    /\ f_pc = "cbk_copy"
    /\ k_local' = m_projects
    /\ cb_seen' = cb_seen \cup {m_projects}
    /\ mutex' = reader_with_exit(mutex)
    /\ f_pc' = "cbk_show"
    /\ UNCHANGED <<getvars, mainvars, m_projects, m_observers, n_idx, snapshot,
                   called, installs>>
    /\ UNCHANGED <<p_pc, p_local, project_combo, removed>>
    /\ UNCHANGED <<vars, cvars, xvars>>

\* the rest of on_model_updated in the call made by notify_observers
ObserverShow ==
    /\ f_pc = "cbk_show"
    /\ project_combo' = populate_projects(project_combo, k_local)
    /\ get_selected_project(project_combo') = ""
    /\ f_pc' = "notify"
    /\ UNCHANGED <<getvars, mainvars, m_projects, m_observers, mutex, n_idx,
                   snapshot, called, cb_seen, installs>>
    /\ UNCHANGED <<p_pc, p_local, k_local, removed>>
    /\ UNCHANGED <<vars, cvars, xvars>>

PNext ==
    \/ FetchStart
    \/ FetchPageResponse
    \/ FetchTaskResponse
    \/ CbAcquire
    \/ CbInstall
    \/ NotifyNext
    \/ CallbackAcquire
    \/ ObserverCopy
    \/ ObserverShow
    \/ PresenterSubscribe
    \/ PresenterAcquire
    \/ PresenterCopy
    \/ PresenterShow

SpecPresenter == PInit /\ [][PNext]_allvars

\* the fetch thread has installed a list and finished its notification round
FetchCompleted == f_pc = "done" /\ installs = 1

\* Presenter.__init__ has returned
PresenterConstructed == p_pc = "ready"

\* C21: once a successful fetch has completed and the Presenter is
\* constructed, the on_model_updated call that filled the view last had read
\* the installed catalog: the view shows the fetched catalog, whichever way
\* the fetch, add_observer and the Presenter's own first call interleave.
NoLostUpdate ==
    (FetchCompleted /\ PresenterConstructed) => project_combo = m_projects

----------------------------------------------------------------------------
(***************************************************************************)
(* remove_observer during a notification round.  notify_observers iterates *)
(* over Model._observers itself (gui.py:120), and the list iterator keeps  *)
(* an index into the list: the action NotifyNext.  remove_observer takes   *)
(* no lock, so it can run between two steps of the loop, called by another *)
(* thread or by the callback the loop has just called; either way the list *)
(* changes under the iterator in the same way.                             *)
(***************************************************************************)

\* notify_observers is between creating the list iterator and exhausting it
InRound == f_pc = "notify" \/ InCallback

\* remove_observer(o), noting what it removed during a round
Unsubscribe(o) ==
    /\ m_observers' = remove_observer(m_observers, o)
    /\ removed' = IF InRound /\ IsIn(m_observers, o) THEN removed \cup {o} ELSE removed
    /\ UNCHANGED <<getvars, mainvars, f_pc, m_projects, mutex, n_idx, snapshot,
                   called, cb_seen, installs>>
    /\ UNCHANGED <<p_pc, p_local, k_local, project_combo>>
    /\ UNCHANGED <<vars, cvars, xvars>>

UNext ==
    \/ FetchStart
    \/ FetchPageResponse
    \/ FetchTaskResponse
    \/ CbAcquire
    \/ CbInstall
    \/ NotifyNext
    \/ CallbackAcquire
    \/ CallbackCopy
    \/ CallbackTasksCopy
    \/ \E o \in Observers : AddObserver(o)
    \/ \E o \in Observers : Unsubscribe(o)

SpecUnsubscribe == SInit /\ [][UNext]_allvars

NoDuplicates(seq) == \A i, j \in DOMAIN seq : seq[i] = seq[j] => i = j

\* C22: when a round has ended, every observer that was registered (once) when
\* the round began and was not removed during the round has been called exactly
\* once in it, whatever was removed meanwhile.
UnsubscribeIsLocal ==
    (f_pc = "done" /\ NoDuplicates(snapshot) /\ NoDuplicates(m_observers))
    => \A o \in Observers :
           (IsIn(snapshot, o) /\ o \notin removed) => TimesCalled(o) = 1

----------------------------------------------------------------------------
(***************************************************************************)
(* src/main.py run as a script ("python main.py").  The interpreter runs   *)
(* the statements of the module from the top: the imports and class        *)
(* definitions, then lines 95-99, and only after those the definitions of  *)
(* start_timer, stop_timer, on_data_handler and main and, last, the call   *)
(* main() at line 214-215.  An exception nobody catches ends the process   *)
(* with status 1.  The keypad sends its reports whether or not a process   *)
(* has set a handler for them.                                             *)
(***************************************************************************)

MaxReports == 2      \* the keypad sends at most MaxReports reports nobody handles

ConfigFiles == {"ok", "missing"}

\* what a statement of the module leaves behind: the statement to run next,
\* the exit status (StillRunning while the process goes on), whether a raw data
\* handler is now set
Statement(next, exit, handler) == [next |-> next, exit |-> exit, handler |-> handler]

\* an exception reaching the top level: traceback, exit status 1
uncaught(handler) == Statement("exited", 1, handler)

\* sys.exit returning to its caller instead of ending the process
sys_exit_returns(status, handler) == Statement("defs", StillRunning, handler)

\* sys.exit(status) at module level (main.py:99): SystemExit reaches the top
\* level and the process ends with that status
sys_exit(status, handler) == Statement("exited", status, handler)

\* main() (main.py:187-212): its first statement calls projects, a name the
\* module never defines, so NameError is raised before the device is looked
\* up and before set_raw_data_handler (main.py:203)
main(handler) == uncaught(handler)

\* the statements of the module after get_projects has returned
module_statement(pc, handler) ==
    CASE pc = "pprint"   -> Statement("sys_exit", StillRunning, handler)    \* main.py:98
      [] pc = "sys_exit" -> sys_exit(1, handler)                    \* main.py:99
      [] pc = "defs"     -> Statement("main", StillRunning, handler)    \* main.py:102-214
      [] pc = "main"     -> main(handler)                           \* main.py:215

\* the Model variables, which this program does not have
modelvars == <<f_pc, m_projects, m_observers, mutex, n_idx, snapshot, called,
               cb_seen, installs, m_pc, m_arg, m_last>>

\* the interpreter has run main.py:1-94 (imports and definitions)
ScriptInit ==
    /\ start_time = None
    /\ PROJECT_ID \in ProjectIdConfigs
    /\ now = 2
    /\ remote \in {<<>>, <<OrphanEntry>>}
    /\ nextId = IF remote = <<>> THEN 1 ELSE 2
    /\ phase = "Idle" /\ last = NoCall /\ prev = NoCall
    /\ pages \in PageLayouts
    /\ f_pc = "none" /\ page = 0 /\ projects_list = <<>>
    /\ page_items = <<>> /\ page_acc = <<>> /\ f_result = <<>> /\ f_error = ""
    /\ reqs = <<>> /\ m_projects = <<>> /\ m_observers = <<>> /\ mutex = "free"
    /\ n_idx = 0 /\ snapshot = <<>> /\ called = <<>> /\ cb_seen = {}
    /\ installs = 0 /\ m_pc = "none" /\ m_arg = <<>> /\ m_last = NoReturn
    /\ CopyInit
    /\ PresenterAbsent
    /\ s_pc = "config" /\ s_exit = StillRunning /\ s_handler = FALSE /\ s_dropped = 0
    /\ s_printed = <<>>

\* main.py:95-97 up to the first page request of get_projects; read_config
\* raises when config.json cannot be read
ScriptConfig ==
    /\ s_pc = "config"
    /\ \E file \in ConfigFiles :
        IF file = "ok"
        THEN /\ page' = page + 1
             /\ reqs' = Append(reqs, PageRequest(page + 1))
             /\ s_pc' = "page_wait"
             /\ UNCHANGED <<s_exit, s_handler, f_error>>
        ELSE LET r == uncaught(s_handler)
             IN  /\ f_error' = "FileNotFoundError"
                 /\ s_pc' = r.next /\ s_exit' = r.exit /\ s_handler' = r.handler
                 /\ UNCHANGED <<page, reqs>>
    /\ UNCHANGED <<pages, projects_list, page_items, page_acc, f_result>>
    /\ UNCHANGED <<modelvars, s_dropped, s_printed>>
    /\ UNCHANGED <<vars, cvars, pvars>>

\* a page request of get_projects (main.py:58-76) is answered
ScriptPageResponse ==
    /\ s_pc = "page_wait"
    /\ \E status \in FetchStatuses :
        LET items == IF status = HTTP_OK THEN ServerPage(pages, page) ELSE <<>>
            r == page_response(projects_list, status, items)
            x == uncaught(s_handler)
        IN  \/ /\ r.next = "tasks"
               /\ page_items' = items
               /\ page_acc' = <<>>
               /\ reqs' = Append(Answered(reqs, status), TaskRequest(items[1].id))
               /\ s_pc' = "task_wait"
               /\ UNCHANGED <<f_result, f_error, s_exit, s_handler>>
            \/ /\ r.next = "return"
               /\ f_result' = r.value
               /\ s_pc' = "pprint"
               /\ reqs' = Answered(reqs, status)
               /\ UNCHANGED <<page_items, page_acc, f_error, s_exit, s_handler>>
            \/ /\ r.next = "raise"
               /\ f_error' = r.error
               /\ s_pc' = x.next /\ s_exit' = x.exit /\ s_handler' = x.handler
               /\ reqs' = Answered(reqs, status)
               /\ UNCHANGED <<page_items, page_acc, f_result>>
    /\ UNCHANGED <<pages, page, projects_list>>
    /\ UNCHANGED <<modelvars, s_dropped, s_printed>>
    /\ UNCHANGED <<vars, cvars, pvars>>

\* a task request of _get_project_tasks (main.py:78-91) is answered
ScriptTaskResponse ==
    /\ s_pc = "task_wait"
    /\ \E status \in FetchStatuses :
        LET project == page_items[Len(page_acc) + 1]
            r == task_response(status,
                               IF status = HTTP_OK THEN ServerTasks(project.id) ELSE <<>>)
            acc == Append(page_acc, ClockifyProject(project.id, project.name, r.value))
            x == uncaught(s_handler)
        IN  \/ /\ r.next = "raise"
               /\ f_error' = r.error
               /\ s_pc' = x.next /\ s_exit' = x.exit /\ s_handler' = x.handler
               /\ reqs' = Answered(reqs, status)
               /\ UNCHANGED <<page, projects_list, page_acc>>
            \/ /\ r.next = "return"
               /\ Len(acc) < Len(page_items)
               /\ page_acc' = acc
               /\ reqs' = Append(Answered(reqs, status),
                                 TaskRequest(page_items[Len(acc) + 1].id))
               /\ UNCHANGED <<page, projects_list, f_error, s_pc, s_exit, s_handler>>
            \/ /\ r.next = "return"
               /\ Len(acc) = Len(page_items)
               /\ page_acc' = acc
               /\ projects_list' = projects_list \o acc
               /\ page' = page + 1
               /\ reqs' = Append(Answered(reqs, status), PageRequest(page + 1))
               /\ s_pc' = "page_wait"
               /\ UNCHANGED <<f_error, s_exit, s_handler>>
    /\ UNCHANGED <<pages, page_items, f_result>>
    /\ UNCHANGED <<modelvars, s_dropped, s_printed>>
    /\ UNCHANGED <<vars, cvars, pvars>>

\* the interpreter runs the next statement of the module (main.py:98-215)
ScriptStatement ==
    /\ s_pc \in {"pprint", "sys_exit", "defs", "main"}
    /\ LET r == module_statement(s_pc, s_handler)
       IN  /\ s_pc' = r.next
           /\ s_exit' = r.exit
           /\ s_handler' = r.handler
    /\ s_printed' = IF s_pc = "pprint" THEN Append(s_printed, f_result) ELSE s_printed
    /\ UNCHANGED s_dropped
    /\ UNCHANGED <<vars, svars, cvars, pvars>>

\* the keypad sends a report: pywinusb calls the handler set on the device,
\* and without one nothing is called
DeviceReport(data) ==
    IF s_handler
    THEN on_data_handler(data)
    ELSE /\ s_dropped < MaxReports
         /\ s_dropped' = s_dropped + 1
         /\ UNCHANGED <<s_pc, s_exit, s_handler, s_printed>>
         /\ UNCHANGED <<vars, svars, cvars, pvars>>

XNext ==
    \/ ScriptConfig
    \/ ScriptPageResponse
    \/ ScriptTaskResponse
    \/ ScriptStatement
    \/ \E data \in Reports : DeviceReport(data)

SpecScript == ScriptInit /\ [][XNext]_allvars

\* no entry has been created or ended on the service since the process began
NoTimerRequest == nextId = (IF remote = <<>> THEN 1 ELSE 2)

\* C23: in a process running main.py as a script, execution never gets past
\* line 99: no raw data handler is ever set, on_data_handler (and with it
\* start_timer / stop_timer) is never called whatever the keypad sends, no time
\* entry is created or ended, and when the process has ended its status is 1,
\* after printing the fetched catalog unless an exception ended it earlier.
ScriptNeverListens ==
    /\ s_handler = FALSE
    /\ s_pc \notin {"defs", "main"}
    /\ last = NoCall /\ prev = NoCall
    /\ NoTimerRequest
    /\ s_exit \in {StillRunning, 1}
    /\ s_pc = "exited" => /\ s_exit = 1
                          /\ s_printed = (IF f_error = "" THEN <<f_result>> ELSE <<>>)

ScriptNeverListensWitness ==
    /\ s_pc = "exited" /\ s_exit = 1
    /\ f_error = "" /\ f_result /= <<>> /\ s_printed = <<f_result>>
    /\ s_dropped > 0
    /\ remote = <<OrphanEntry>>
====
